---- MODULE Spec2Model ----
(***************************************************************************)
(* autoPen: the scan orchestrator (app/services/scanner.py), its tools     *)
(* (app/services/tools.py) and the API layer that starts the background    *)
(* runs (app/api/api_v1/endpoints/scan.py, app/schemas/scan.py).           *)
(*                                                                         *)
(* Host names are sequences of labels (<<"www","x","com">> is www.x.com);  *)
(* the token " " stands for a run of white space.  Python lists are        *)
(* sequences, Python sets are sets, a Python dict is a record of its keys  *)
(* in insertion order and its values.  Time stamps (updated_at,            *)
(* scan_completed_at, created_at) are left out of the records.             *)
(***************************************************************************)
EXTENDS Integers, Sequences, FiniteSets, TLC

None == "None"

(***************************************************************************)
(* Bounds of the model.                                                    *)
(***************************************************************************)
\* scan_counter stops here: at most MaxJobs scans are created.
MaxJobs == 2
\* Only the first MaxLabels labels of common_subs ever resolve or fail
\* with an error other than gaierror; the others answer gaierror.
MaxLabels == 2
\* Longest crt.sh answer (number of certificate records) that is enumerated.
MaxCerts == 2

(***************************************************************************)
(* Python values.                                                          *)
(***************************************************************************)
SeqToSet(s) == {s[i] : i \in DOMAIN s}

NoDup(s) == \A i, j \in DOMAIN s : s[i] = s[j] => i = j

\* list(S) for a set S: its elements once each, in an order the hash seed picks.
ListsOf(S) == {s \in [1..Cardinality(S) -> S] : SeqToSet(s) = S}

\* A call either returns a value or raises.
Ok(v) == [exc |-> None, value |-> v]

Raise(e) == [exc |-> e, value |-> None]

EmptyDict == [keys |-> <<>>, val |-> <<>>]

\* d[k] = v
DictSet(d, k, v) ==
    IF k \in SeqToSet(d.keys)
    THEN [keys |-> d.keys,
          val |-> [x \in DOMAIN d.val |-> IF x = k THEN v ELSE d.val[x]]]
    ELSE [keys |-> Append(d.keys, k), val |-> (k :> v) @@ d.val]

\* bool(d) for a dict d with string keys (a record here): it has a key.
Truthy(d) == DOMAIN d # {}

\* str.strip()
RECURSIVE LStrip(_)
LStrip(s) == IF s # <<>> /\ Head(s) = " " THEN LStrip(Tail(s)) ELSE s

RECURSIVE RStrip(_)
RStrip(s) ==
    IF s # <<>> /\ s[Len(s)] = " " THEN RStrip(SubSeq(s, 1, Len(s) - 1)) ELSE s

Strip(s) == RStrip(LStrip(s))

\* `domain in name`: domain occurs in name as a contiguous run.
Contains(name, domain) ==
    \E i \in 1..(Len(name) - Len(domain) + 1) :
        SubSeq(name, i, i + Len(domain) - 1) = domain

(***************************************************************************)
(* SubdomainEnumerator                                                     *)
(***************************************************************************)
\* The loop body of _crtsh_lookup over the certificate records of the answer.
\* A record that is no JSON object makes cert.get fail: the except clause
\* ends the loop and what was appended so far is returned.
RECURSIVE CrtNames(_, _, _)
CrtNames(domain, data, acc) ==
    IF data = <<>> THEN acc
    ELSE IF ~Head(data).object THEN acc
    ELSE LET name == Head(data).name_value
         IN  CrtNames(domain, Tail(data),
                      IF name # <<>> /\ Contains(name, domain)
                      THEN Append(acc, Strip(name)) ELSE acc)

\* resp is the outcome of the HTTP exchange with crt.sh: "import_error" when
\* aiohttp cannot be imported (raised before the try), "error" for a network
\* error or time-out, "ok" with a status and the decoded JSON list.
_crtsh_lookup(domain, resp) ==
    IF resp.kind = "import_error" THEN Raise("ImportError")
    ELSE IF resp.kind = "error" THEN Ok(<<>>)
    ELSE IF resp.status # 200 THEN Ok(<<>>)
    ELSE Ok(CrtNames(domain, resp.data, <<>>))

common_subs ==
    <<"www", "mail", "ftp", "admin", "api", "dev", "test", "staging",
      "blog", "shop", "app", "mobile", "secure", "vpn", "remote">>

\* resolve[label] is what socket.gethostbyname does for label.domain: "ok",
\* "gaierror" (caught, the label is skipped) or "error" (any other exception:
\* it is not caught and leaves _dns_bruteforce).
RECURSIVE DnsLoop(_, _, _, _)
DnsLoop(domain, resolve, i, acc) ==
    IF i > Len(common_subs) THEN Ok(acc)
    ELSE LET sub == common_subs[i]
             subdomain == <<sub>> \o domain
         IN  CASE resolve[sub] = "ok" ->
                     DnsLoop(domain, resolve, i + 1, Append(acc, subdomain))
               [] resolve[sub] = "gaierror" ->
                     DnsLoop(domain, resolve, i + 1, acc)
               [] OTHER -> Raise("UnicodeError")

_dns_bruteforce(domain, resolve) == DnsLoop(domain, resolve, 1, <<>>)

_certificate_transparency(domain) == Ok(<<>>)

\* What the three methods give, in the order enumerate_subdomains calls them.
MethodResults(domain, net) ==
    << _crtsh_lookup(domain, net.crt),
       _dns_bruteforce(domain, net.dns),
       _certificate_transparency(domain) >>

\* The for loop of enumerate_subdomains: subdomains.update(results) for each
\* method that returns, nothing for a method that raises.
RECURSIVE UpdateAll(_, _)
UpdateAll(subdomains, results) ==
    IF results = <<>> THEN subdomains
    ELSE UpdateAll(IF Head(results).exc = None
                   THEN subdomains \cup SeqToSet(Head(results).value)
                   ELSE subdomains,
                   Tail(results))

RECURSIVE ConcatValues(_)
ConcatValues(results) ==
    IF results = <<>> THEN <<>>
    ELSE (IF Head(results).exc = None THEN Head(results).value ELSE <<>>)
         \o ConcatValues(Tail(results))

\* Mutant: the results are appended to a list instead of added to a set.
enumerate_subdomains_extend(domain, net) ==
    {ConcatValues(MethodResults(domain, net))}

\* The lists enumerate_subdomains may return: list(subdomains).
enumerate_subdomains(domain, net) ==
    ListsOf(UpdateAll({}, MethodResults(domain, net)))

(***************************************************************************)
(* PortScanner                                                             *)
(***************************************************************************)
common_ports ==
    <<21, 22, 23, 25, 53, 80, 110, 143, 443, 993, 995, 3306, 5432, 6379, 27017>>

\* Mutant: the table is empty.
_identify_service_unknown(port) == "unknown"

_identify_service(port) ==
    CASE port = 21 -> "ftp"
      [] port = 22 -> "ssh"
      [] port = 23 -> "telnet"
      [] port = 25 -> "smtp"
      [] port = 53 -> "dns"
      [] port = 80 -> "http"
      [] port = 110 -> "pop3"
      [] port = 143 -> "imap"
      [] port = 443 -> "https"
      [] port = 993 -> "imaps"
      [] port = 995 -> "pop3s"
      [] port = 3306 -> "mysql"
      [] port = 5432 -> "postgresql"
      [] port = 6379 -> "redis"
      [] port = 27017 -> "mongodb"
      [] OTHER -> "unknown"

\* conn[target] tells what connect_ex does on the target's ports: 0 on the
\* ports of .open, an exception (gaierror, OSError) on those of .err, an
\* errno otherwise.
ConnectEx(conn, target, port) ==
    IF port \in conn[target].open THEN "0"
    ELSE IF port \in conn[target].err THEN "raise"
    ELSE "errno"

\* Mutant: without the try, the first connection that raises ends the loop.
RECURSIVE PortLoop_no_try(_, _, _, _)
PortLoop_no_try(target, ports, conn, open_ports) ==
    IF ports = <<>> THEN open_ports
    ELSE LET port == Head(ports)
             result == ConnectEx(conn, target, port)
         IN  IF result = "raise" THEN open_ports
             ELSE PortLoop_no_try(target, Tail(ports), conn,
                                  IF result = "0"
                                  THEN Append(open_ports,
                                              [port |-> port,
                                               service |-> _identify_service(port),
                                               state |-> "open"])
                                  ELSE open_ports)

RECURSIVE PortLoop(_, _, _, _)
PortLoop(target, ports, conn, open_ports) ==
    IF ports = <<>> THEN open_ports
    ELSE LET port == Head(ports)
         IN  PortLoop(target, Tail(ports), conn,
                      IF ConnectEx(conn, target, port) = "0"
                      THEN Append(open_ports,
                                  [port |-> port,
                                   service |-> _identify_service(port),
                                   state |-> "open"])
                      ELSE open_ports)

_scan_target_ports(target, ports, conn) ==
    [target |-> target,
     open_ports |-> PortLoop(target, ports, conn, <<>>),
     scan_time |-> "now"]

RECURSIVE ScanLoop(_, _, _)
ScanLoop(targets, conn, results) ==
    IF targets = <<>> THEN results
    ELSE LET target == Head(targets)
             target_results == _scan_target_ports(target, common_ports, conn)
         IN  ScanLoop(Tail(targets), conn,
                      IF Truthy(target_results)
                      THEN DictSet(results, target, target_results)
                      ELSE results)

scan_ports(targets, conn) == ScanLoop(targets, conn, EmptyDict)

(***************************************************************************)
(* VulnerabilityScanner                                                    *)
(***************************************************************************)
\* Mutant: Content-Security-Policy is not checked.
security_headers_four ==
    <<"X-Frame-Options", "X-Content-Type-Options", "X-XSS-Protection",
      "Strict-Transport-Security">>

\* The keys of security_headers, in the order of the dict literal.
security_headers ==
    <<"X-Frame-Options", "X-Content-Type-Options", "X-XSS-Protection",
      "Strict-Transport-Security", "Content-Security-Policy">>

HeaderDescription(header) ==
    CASE header = "X-Frame-Options" -> "Clickjacking protection missing"
      [] header = "X-Content-Type-Options" -> "MIME type sniffing protection missing"
      [] header = "X-XSS-Protection" -> "XSS protection missing"
      [] header = "Strict-Transport-Security" -> "HSTS missing"
      [] header = "Content-Security-Policy" -> "CSP missing"

RECURSIVE HeaderLoop(_, _, _, _, _)
HeaderLoop(target, port, headers, todo, vulnerabilities) ==
    IF todo = <<>> THEN vulnerabilities
    ELSE HeaderLoop(target, port, headers, Tail(todo),
                    IF Head(todo) \notin headers
                    THEN Append(vulnerabilities,
                                [target |-> target,
                                 port |-> port,
                                 vulnerability_type |-> "Missing Security Header",
                                 severity |-> "Medium",
                                 description |-> HeaderDescription(Head(todo)),
                                 tool |-> "HeaderScanner"])
                    ELSE vulnerabilities)

\* resp is the outcome of the GET: "error" (any exception inside the try:
\* import, connection, time-out) or "ok" with the set of response headers.
_scan_web_vulnerabilities(target, port, resp) ==
    IF resp.kind = "error" THEN <<>>
    ELSE HeaderLoop(target, port, resp.headers, security_headers, <<>>)

\* Mutant: every service is audited.
IsWeb_any(service) == TRUE

IsWeb(service) == service \in {"http", "https"}

\* http[<<target, port>>] is the outcome of the GET on that target and port.
RECURSIVE TargetVulnLoop(_, _, _, _)
TargetVulnLoop(target, open_ports, http, vulnerabilities) ==
    IF open_ports = <<>> THEN vulnerabilities
    ELSE LET port_data == Head(open_ports)
         IN  TargetVulnLoop(target, Tail(open_ports), http,
                 IF IsWeb(port_data.service)
                 THEN vulnerabilities \o
                      _scan_web_vulnerabilities(target, port_data.port,
                                                http[<<target, port_data.port>>])
                 ELSE vulnerabilities)

_scan_target_vulnerabilities(target, port_info, http) ==
    TargetVulnLoop(target, port_info.open_ports, http, <<>>)

RECURSIVE VulnLoop(_, _, _, _)
VulnLoop(targets, keys, http, vulnerabilities) ==
    IF keys = <<>> THEN vulnerabilities
    ELSE VulnLoop(targets, Tail(keys), http,
                  vulnerabilities \o
                  _scan_target_vulnerabilities(Head(keys), targets.val[Head(keys)], http))

\* Mutant: a GET that fails raises out of scan_vulnerabilities and what was
\* collected is lost.
scan_vulnerabilities_abort(targets, http) ==
    IF \E t \in SeqToSet(targets.keys) :
          \E k \in DOMAIN targets.val[t].open_ports :
             /\ IsWeb(targets.val[t].open_ports[k].service)
             /\ http[<<t, targets.val[t].open_ports[k].port>>].kind = "error"
    THEN <<>>
    ELSE VulnLoop(targets, targets.keys, http, <<>>)

scan_vulnerabilities(targets, http) == VulnLoop(targets, targets.keys, http, <<>>)

\* The (target, port) pairs scan_vulnerabilities audits, in the order it
\* reaches them: each audit awaits an HTTP exchange.
RECURSIVE WebPorts(_, _)
WebPorts(target, open_ports) ==
    IF open_ports = <<>> THEN <<>>
    ELSE (IF IsWeb(Head(open_ports).service)
          THEN << <<target, Head(open_ports).port>> >> ELSE <<>>)
         \o WebPorts(target, Tail(open_ports))

RECURSIVE AuditPairs(_, _)
AuditPairs(targets, keys) ==
    IF keys = <<>> THEN <<>>
    ELSE WebPorts(Head(keys), targets.val[Head(keys)].open_ports)
         \o AuditPairs(targets, Tail(keys))

(***************************************************************************)
(* ScanOrchestrator: the status table                                      *)
(***************************************************************************)
StatusRec(status, progress, phase, message) ==
    [status |-> status, progress |-> progress,
     current_phase |-> phase, message |-> message]

\* Mutant: the update replaces every record of the table.
_update_scan_status_all(tbl, scan_id, rec) ==
    [k \in DOMAIN tbl \cup {scan_id} |-> rec]

\* self.scan_status[scan_id] = {...}
_update_scan_status(tbl, scan_id, rec) == (scan_id :> rec) @@ tbl

\* self.scan_status.get(scan_id, {...})
get_scan_status(tbl, scan_id) ==
    IF scan_id \in DOMAIN tbl THEN tbl[scan_id]
    ELSE StatusRec("unknown", 0, "unknown", <<"Scan status not found">>)

\* Mutant: setdefault instead of get.
TableAfterGet_setdefault(tbl, scan_id) ==
    IF scan_id \in DOMAIN tbl THEN tbl
    ELSE (scan_id :> StatusRec("unknown", 0, "unknown", <<"Scan status not found">>)) @@ tbl

\* The status table after get_scan_status: dict.get stores nothing.
TableAfterGet(tbl, scan_id) == tbl

RECURSIVE ApplyUpdates(_, _, _)
ApplyUpdates(tbl, scan_id, recs) ==
    IF recs = <<>> THEN tbl
    ELSE ApplyUpdates(_update_scan_status(tbl, scan_id, Head(recs)), scan_id, Tail(recs))

(***************************************************************************)
(* ScanOrchestrator: the four runs, piece by piece                         *)
(***************************************************************************)
\* Mutant: the first status of every run is 'pending'.
StartUpdates_pending(scan_type) ==
    << StatusRec("pending", 0, "Starting scan", <<"Initializing...">>) >>

\* The status updates a run makes before its first tool call.
StartUpdates(scan_type) ==
    CASE scan_type = "full" ->
             << StatusRec("running", 0, "Starting scan", <<"Initializing...">>),
                StatusRec("running", 10, "subdomain_enum", <<"Enumerating subdomains...">>) >>
      [] scan_type = "subdomain" ->
             << StatusRec("running", 0, "subdomain_enum",
                          <<"Starting subdomain enumeration...">>) >>
      [] scan_type = "port" ->
             << StatusRec("running", 0, "port_scan", <<"Starting port scan...">>) >>
      [] scan_type = "vuln" ->
             << StatusRec("running", 0, "vuln_scan", <<"Starting vulnerability scan...">>) >>

\* Mutant: the two progress values are exchanged.
AfterEnumerateUpdates_exchanged(all_targets) ==
    << StatusRec("running", 40, "subdomain_enum",
                 <<"Found ", ToString(Len(all_targets)), " targets">>),
       StatusRec("running", 30, "port_scan", <<"Scanning ports...">>) >>

\* run_full_scan, between enumerate_subdomains and scan_ports.
AfterEnumerateUpdates(all_targets) ==
    << StatusRec("running", 30, "subdomain_enum",
                 <<"Found ", ToString(Len(all_targets)), " targets">>),
       StatusRec("running", 40, "port_scan", <<"Scanning ports...">>) >>

\* run_full_scan, between scan_ports and scan_vulnerabilities.
AfterPortScanUpdates(port_results) ==
    << StatusRec("running", 70, "port_scan",
                 <<"Scanned ", ToString(Len(port_results.keys)), " targets">>),
       StatusRec("running", 80, "vuln_scan", <<"Scanning vulnerabilities...">>) >>

\* run_full_scan, after scan_vulnerabilities.
AfterVulnUpdates(vulnerabilities) ==
    << StatusRec("running", 95, "vuln_scan",
                 <<"Found ", ToString(Len(vulnerabilities)), " potential issues">>) >>

\* The results dict of each run; f holds the run's local variables.
CompileResults(scan_type, target_domain, f) ==
    CASE scan_type = "full" ->
             [target_domain |-> target_domain,
              summary |-> [total_subdomains |-> Len(f.subdomains),
                           total_targets |-> Len(f.all_targets),
                           targets_with_open_ports |-> Len(f.port_results.keys),
                           total_vulnerabilities |-> Len(f.vulnerabilities)],
              subdomains |-> f.subdomains,
              port_scan_results |-> f.port_results,
              vulnerabilities |-> f.vulnerabilities]
      [] scan_type = "subdomain" ->
             [target_domain |-> target_domain,
              subdomains |-> f.subdomains,
              total_found |-> Len(f.subdomains)]
      [] scan_type = "port" ->
             [target_domain |-> target_domain,
              port_scan_results |-> f.port_results]
      [] scan_type = "vuln" ->
             [target_domain |-> target_domain,
              vulnerabilities |-> f.vulnerabilities,
              total_vulnerabilities |-> Len(f.vulnerabilities)]

\* The last status update of a run that returns.
CompletedStatus(scan_type, f) ==
    CASE scan_type = "full" ->
             StatusRec("completed", 100, "completed", <<"Scan completed successfully">>)
      [] scan_type = "subdomain" ->
             StatusRec("completed", 100, "completed",
                       <<"Found ", ToString(Len(f.subdomains)), " subdomains">>)
      [] scan_type = "port" ->
             StatusRec("completed", 100, "completed", <<"Port scan completed">>)
      [] scan_type = "vuln" ->
             StatusRec("completed", 100, "completed",
                       <<"Found ", ToString(Len(f.vulnerabilities)), " vulnerabilities">>)

\* error_msg of the except clause of each run.
ErrorMsg(scan_type, e) ==
    CASE scan_type = "full" -> <<"Scan failed: ", e>>
      [] scan_type = "subdomain" -> <<"Subdomain scan failed: ", e>>
      [] scan_type = "port" -> <<"Port scan failed: ", e>>
      [] scan_type = "vuln" -> <<"Vulnerability scan failed: ", e>>

\* Mutant: the except clause reports the run as finished.
FailedStatus_progress100(scan_type, e) ==
    StatusRec("failed", 100, "error", <<"Scan failed">>)

\* The status update of the except clause of each run.
FailedStatus(scan_type, e) == StatusRec("failed", 0, "error", ErrorMsg(scan_type, e))

(***************************************************************************)
(* The request schema                                                      *)
(***************************************************************************)
allowed_types == {"full", "subdomain", "port", "vuln"}

\* Mutant: the validator accepts every string.
validate_scan_type_any(v) == TRUE

\* ScanCreate.validate_scan_type: TRUE when v is accepted.
validate_scan_type(v) == v \in allowed_types

(***************************************************************************)
(* The state: the API module's scans_db and scan_counter, the tasks handed *)
(* to BackgroundTasks, the orchestrator's scan_status, and each background *)
(* run's position (pc) and local variables (frame).                        *)
(*                                                                         *)
(* All coroutines run on one event loop.  loop is the id of the run that   *)
(* holds the loop (it is between two awaits that suspend), 0 when every    *)
(* run is suspended or finished: request handlers and other runs only run  *)
(* when loop = 0.  socket.gethostbyname and connect_ex block: they do not  *)
(* suspend.  The aiohttp exchanges do.                                     *)
(*                                                                         *)
(* log[id] is the history of run id: its status updates and tool calls.    *)
(* response is the last answer of the API to a status request or to a     *)
(* request it refused.  tool is the last direct call of   *)
(* a tool (specification SpecTools).                                       *)
(***************************************************************************)
VARIABLES scans_db, scan_counter, tasks, scan_status, pc, frame, loop,
          log, response, tool

vars == <<scans_db, scan_counter, tasks, scan_status, pc, frame, loop,
          log, response, tool>>

Ids == 1..MaxJobs

\* The target domain of the requests, already stripped and lower-cased.
Domain == <<"x", "com">>

Www == <<"www">> \o Domain

\* ---- what the network may answer ----
CrtResp(kind, status, data) == [kind |-> kind, status |-> status, data |-> data]

NoResp == CrtResp("none", 0, <<>>)

Cert(name) == [object |-> TRUE, name_value |-> name]

NotAnObject == [object |-> FALSE, name_value |-> <<>>]

\* gethostbyname answers "ok" for the labels of ok, raises another error
\* than gaierror for those of err, and gaierror for the rest.
DnsAnswer(ok, err) ==
    [l \in SeqToSet(common_subs) |->
        IF l \in ok THEN "ok" ELSE IF l \in err THEN "error" ELSE "gaierror"]

ConnProfile(open, err) == [open |-> open, err |-> err]

HttpResp(kind, headers) == [kind |-> kind, headers |-> headers]

\* The answers drawn in the runs of Spec.
SpecCrt == {CrtResp("error", 0, <<>>), CrtResp("ok", 200, <<Cert(Www)>>)}

SpecDns == {DnsAnswer({}, {}), DnsAnswer({"www"}, {})}

\* www.x.com serves HTTP on port 80; no other host has an open port.
SpecConn(target) ==
    IF target = Www THEN {ConnProfile({80}, {})} ELSE {ConnProfile({}, {})}

SpecHttp ==
    {HttpResp("error", {}),
     HttpResp("ok", {"X-Frame-Options", "X-XSS-Protection", "Content-Security-Policy"})}

\* An exception that leaves a tool call: any statement may raise MemoryError.
PhaseFaults == {None, "MemoryError"}

\* datetime.utcnow() raises DeprecationWarning when warnings are errors.
CompileFaults == {None, "DeprecationWarning"}

RequestTypes == allowed_types \cup {"bogus"}

\* ---- histories ----
NoRec == StatusRec(None, 0, None, <<>>)

Event(ev, name, rec) == [ev |-> ev, name |-> name, rec |-> rec]

StatusEvents(recs) == [i \in DOMAIN recs |-> Event("status", recs[i].status, recs[i])]

Call(name) == Event("call", name, NoRec)

Return(name) == Event("return", name, NoRec)

Raised(name) == Event("raise", name, NoRec)

IsStatus(e) == e.ev = "status"

RECURSIVE RecsOf(_)
RecsOf(events) ==
    IF events = <<>> THEN <<>>
    ELSE (IF IsStatus(Head(events)) THEN <<Head(events).rec>> ELSE <<>>)
         \o RecsOf(Tail(events))

\* What the history keeps of a step's events: all but the message texts.
Logged(events) ==
    [i \in DOMAIN events |-> [events[i] EXCEPT !.rec.message = <<>>]]

\* The status updates run id has made, in order (without their messages).
Writes(id) == RecsOf(log[id])

NoResponse == [op |-> "none", code |-> 0, scan_id |-> 0,
               status |-> None, progress |-> 0, ran |-> FALSE]

EmptyFrame ==
    [subdomains |-> <<>>, all_targets |-> <<>>, port_results |-> EmptyDict,
     vulnerabilities |-> <<>>, audits |-> <<>>, crt |-> NoResp,
     results |-> <<>>, exc |-> None]

\* The ids a run_* method of the orchestrator was called with.
Ran == {id \in Ids : \E i \in DOMAIN log[id] : log[id][i] = Call("run")}

Init ==
    /\ scans_db = <<>>
    /\ scan_counter = 0
    /\ tasks = <<>>
    /\ scan_status = <<>>
    /\ pc = [id \in Ids |-> "none"]
    /\ frame = [id \in Ids |-> EmptyFrame]
    /\ loop = 0
    /\ log = [id \in Ids |-> <<>>]
    /\ response = NoResponse
    /\ tool = [op |-> "none"]

(***************************************************************************)
(* The request handlers (endpoints/scan.py).  A handler has no await that  *)
(* suspends: it is one step, taken when no run holds the loop.             *)
(***************************************************************************)
Response(op, code, scan_id, status, progress, ran) ==
    [op |-> op, code |-> code, scan_id |-> scan_id,
     status |-> status, progress |-> progress, ran |-> ran]

\* The scan record create_scan stores.
ScanRecord(scan_id, target_domain, scan_type) ==
    [id |-> scan_id, target_domain |-> target_domain, scan_type |-> scan_type,
     status |-> "pending", completed_at |-> None, results |-> <<>>,
     error_message |-> None]

\* POST /scans.  A scan_type the schema refuses is answered 422 before the
\* handler runs.
create_scan(scan_type) ==
    /\ loop = 0
    /\ validate_scan_type(scan_type) => scan_counter < MaxJobs
    /\ IF validate_scan_type(scan_type)
       THEN LET scan_id == scan_counter + 1
            IN  /\ scan_counter' = scan_id
                /\ scans_db' = (scan_id :> ScanRecord(scan_id, Domain, scan_type)) @@ scans_db
                /\ tasks' = (scan_id :> [target_domain |-> Domain, scan_type |-> scan_type])
                            @@ tasks
                /\ pc' = [pc EXCEPT ![scan_id] = "queued"]
                /\ UNCHANGED response
       ELSE /\ response' = Response("create", 422, 0, None, 0, FALSE)
            /\ UNCHANGED <<scan_counter, scans_db, tasks, pc>>
    /\ UNCHANGED <<scan_status, frame, loop, log, tool>>

\* GET /scans/{scan_id}/status of a scan that exists (for one that does not
\* the handler answers 404 and does not reach the orchestrator).
api_get_scan_status(scan_id) ==
    /\ loop = 0
    /\ scan_id \in DOMAIN scans_db
    /\ LET status_info == get_scan_status(scan_status, scan_id)
       IN  /\ response' = Response("status", 200, scan_id, status_info.status,
                                   status_info.progress, scan_id \in Ran)
           /\ scan_status' = TableAfterGet(scan_status, scan_id)
    /\ UNCHANGED <<scans_db, scan_counter, tasks, pc, frame, loop, log, tool>>

\* DELETE /scans/{scan_id} of a scan that exists (for one that does not the
\* handler answers 404 and changes nothing).
delete_scan(scan_id) ==
    /\ loop = 0
    /\ scan_id \in DOMAIN scans_db
    /\ scans_db' = [k \in DOMAIN scans_db \ {scan_id} |-> scans_db[k]]
    /\ UNCHANGED <<scan_counter, tasks, scan_status, pc, frame, loop, log,
                   response, tool>>

(***************************************************************************)
(* run_scan_background and the run it dispatches to.                       *)
(***************************************************************************)
\* One step of run id: its new position and locals, what it reports and calls
\* (events, in order), and who holds the loop afterwards.
Step(id, newpc, newframe, events, newloop) ==
    /\ pc' = [pc EXCEPT ![id] = newpc]
    /\ frame' = [frame EXCEPT ![id] = newframe]
    /\ scan_status' = ApplyUpdates(scan_status, id, RecsOf(events))
    /\ log' = [log EXCEPT ![id] = @ \o Logged(events)]
    /\ loop' = newloop

\* The if/elif chain of run_scan_background.
Dispatch(scan_type) ==
    CASE scan_type = "full" -> "run_full_scan"
      [] scan_type = "subdomain" -> "run_subdomain_scan"
      [] scan_type = "port" -> "run_port_scan"
      [] scan_type = "vuln" -> "run_vulnerability_scan"
      [] OTHER -> "ValueError"

\* scans_db[scan_id]['status'] = 'running', then the dispatch.  With the
\* record deleted the assignment raises KeyError, and so does the update in
\* the except clause: the task ends with the exception.
bg_start(id) ==
    /\ loop = 0
    /\ pc[id] = "queued"
    /\ IF id \notin DOMAIN scans_db
       THEN /\ Step(id, "crashed", frame[id], <<>>, 0)
            /\ UNCHANGED scans_db
       ELSE /\ scans_db' = [scans_db EXCEPT ![id].status = "running"]
            /\ IF Dispatch(tasks[id].scan_type) = "ValueError"
               THEN Step(id, "bg_except",
                         [frame[id] EXCEPT !.exc = "Unknown scan type"], <<>>, id)
               ELSE Step(id, "run", frame[id], <<>>, id)
    /\ UNCHANGED <<scan_counter, tasks, response, tool>>

\* Mutant: every run starts with the port scan.
FirstPhase_port_scan(scan_type) == "port_scan"

\* Where a run goes after its first status updates.
FirstPhase(scan_type) ==
    IF scan_type \in {"full", "subdomain"} THEN "enumerate" ELSE "port_scan"

\* The start of run_full_scan, run_subdomain_scan, run_port_scan or
\* run_vulnerability_scan: the status updates before the first tool call.
run_start(id) ==
    /\ loop = id
    /\ pc[id] = "run"
    /\ Step(id, FirstPhase(tasks[id].scan_type), frame[id],
            <<Call("run")>> \o StatusEvents(StartUpdates(tasks[id].scan_type)), id)
    /\ UNCHANGED <<scans_db, scan_counter, tasks, response, tool>>

\* enumerate_subdomains up to the GET of _crtsh_lookup, which suspends the
\* run; with aiohttp missing the method raises at once and nothing suspends.
enumerate_start(id) ==
    /\ loop = id
    /\ pc[id] = "enumerate"
    /\ \E import_fails \in BOOLEAN :
          IF import_fails
          THEN Step(id, "enumerate_rest",
                    [frame[id] EXCEPT !.crt = CrtResp("import_error", 0, <<>>)],
                    <<Call("enumerate_subdomains")>>, id)
          ELSE Step(id, "crtsh_wait", frame[id], <<Call("enumerate_subdomains")>>, 0)
    /\ UNCHANGED <<scans_db, scan_counter, tasks, response, tool>>

\* The answer of crt.sh (or the failure of the exchange) resumes the run.
crtsh_reply(id) ==
    /\ loop = 0
    /\ pc[id] = "crtsh_wait"
    /\ \E resp \in SpecCrt :
          Step(id, "enumerate_rest", [frame[id] EXCEPT !.crt = resp], <<>>, id)
    /\ UNCHANGED <<scans_db, scan_counter, tasks, response, tool>>

\* The rest of enumerate_subdomains (_dns_bruteforce blocks, it does not
\* suspend) and its return to the run.
enumerate_return(id) ==
    /\ loop = id
    /\ pc[id] = "enumerate_rest"
    /\ \E dns \in SpecDns, fault \in PhaseFaults :
          IF fault # None
          THEN Step(id, "except", [frame[id] EXCEPT !.exc = fault, !.crt = NoResp],
                    <<Raised("enumerate_subdomains")>>, id)
          ELSE \E subdomains \in enumerate_subdomains(tasks[id].target_domain,
                                                      [crt |-> frame[id].crt, dns |-> dns]) :
                  Step(id,
                       IF tasks[id].scan_type = "full" THEN "after_enumerate" ELSE "compile",
                       [frame[id] EXCEPT !.subdomains = subdomains, !.crt = NoResp],
                       <<Return("enumerate_subdomains")>>, id)
    /\ UNCHANGED <<scans_db, scan_counter, tasks, response, tool>>

\* all_targets = list(set([target_domain] + subdomains))
AllTargets(target_domain, subdomains) ==
    ListsOf(SeqToSet(<<target_domain>> \o subdomains))

\* run_full_scan between its first and its second phase.
after_enumerate(id) ==
    /\ loop = id
    /\ pc[id] = "after_enumerate"
    /\ \E all_targets \in AllTargets(tasks[id].target_domain, frame[id].subdomains) :
          Step(id, "port_scan", [frame[id] EXCEPT !.all_targets = all_targets],
               StatusEvents(AfterEnumerateUpdates(all_targets)), id)
    /\ UNCHANGED <<scans_db, scan_counter, tasks, response, tool>>

\* The targets a run hands to scan_ports.
PortTargets(scan_type, target_domain, f) ==
    IF scan_type = "full" THEN f.all_targets ELSE <<target_domain>>

AfterPortScan(scan_type) ==
    CASE scan_type = "full" -> "after_port_scan"
      [] scan_type = "port" -> "compile"
      [] scan_type = "vuln" -> "vuln_scan"

\* scan_ports: connect_ex blocks, so the whole phase is one step of the loop.
port_scan(id) ==
    /\ loop = id
    /\ pc[id] = "port_scan"
    /\ LET targets == PortTargets(tasks[id].scan_type, tasks[id].target_domain, frame[id])
       IN  \E conn \in {c \in [SeqToSet(targets) -> UNION {SpecConn(t) : t \in SeqToSet(targets)}] :
                           \A t \in SeqToSet(targets) : c[t] \in SpecConn(t)},
              fault \in PhaseFaults :
              IF fault # None
              THEN Step(id, "except", [frame[id] EXCEPT !.exc = fault],
                        <<Call("scan_ports"), Raised("scan_ports")>>, id)
              ELSE Step(id, AfterPortScan(tasks[id].scan_type),
                        [frame[id] EXCEPT !.port_results = scan_ports(targets, conn)],
                        <<Call("scan_ports"), Return("scan_ports")>>, id)
    /\ UNCHANGED <<scans_db, scan_counter, tasks, response, tool>>

\* run_full_scan between its second and its third phase.
after_port_scan(id) ==
    /\ loop = id
    /\ pc[id] = "after_port_scan"
    /\ Step(id, "vuln_scan", frame[id],
            StatusEvents(AfterPortScanUpdates(frame[id].port_results)), id)
    /\ UNCHANGED <<scans_db, scan_counter, tasks, response, tool>>

\* The call of scan_vulnerabilities.
vuln_call(id) ==
    /\ loop = id
    /\ pc[id] = "vuln_scan"
    /\ Step(id, "vuln_loop",
            [frame[id] EXCEPT !.vulnerabilities = <<>>,
                              !.audits = AuditPairs(frame[id].port_results,
                                                    frame[id].port_results.keys)],
            <<Call("scan_vulnerabilities")>>, id)
    /\ UNCHANGED <<scans_db, scan_counter, tasks, response, tool>>

\* scan_vulnerabilities goes on to its next web port, where the GET of
\* _scan_web_vulnerabilities suspends the run, or returns.
vuln_next(id) ==
    /\ loop = id
    /\ pc[id] = "vuln_loop"
    /\ IF frame[id].audits # <<>>
       THEN Step(id, "audit_wait", frame[id], <<Call("_scan_web_vulnerabilities")>>, 0)
       ELSE \E fault \in PhaseFaults :
               IF fault # None
               THEN Step(id, "except", [frame[id] EXCEPT !.exc = fault],
                         <<Raised("scan_vulnerabilities")>>, id)
               ELSE Step(id,
                         IF tasks[id].scan_type = "full" THEN "after_vuln" ELSE "compile",
                         frame[id], <<Return("scan_vulnerabilities")>>, id)
    /\ UNCHANGED <<scans_db, scan_counter, tasks, response, tool>>

\* The answer to the GET (or its failure) resumes the run:
\* vulnerabilities.extend(web_vulns).
audit_reply(id) ==
    /\ loop = 0
    /\ pc[id] = "audit_wait"
    /\ \E resp \in SpecHttp :
          LET audit == Head(frame[id].audits)
          IN  Step(id, "vuln_loop",
                   [frame[id] EXCEPT
                       !.vulnerabilities =
                           @ \o _scan_web_vulnerabilities(audit[1], audit[2], resp),
                       !.audits = Tail(@)],
                   <<Return("_scan_web_vulnerabilities")>>, id)
    /\ UNCHANGED <<scans_db, scan_counter, tasks, response, tool>>

\* run_full_scan after its third phase.
after_vuln(id) ==
    /\ loop = id
    /\ pc[id] = "after_vuln"
    /\ Step(id, "compile", frame[id],
            StatusEvents(AfterVulnUpdates(frame[id].vulnerabilities)), id)
    /\ UNCHANGED <<scans_db, scan_counter, tasks, response, tool>>

\* The results dict, the last status update and the return of the run.
compile(id) ==
    /\ loop = id
    /\ pc[id] = "compile"
    /\ \E fault \in CompileFaults :
          IF fault # None
          THEN Step(id, "except", [frame[id] EXCEPT !.exc = fault],
                    <<Raised("results")>>, id)
          ELSE Step(id, "bg_store",
                    [EmptyFrame EXCEPT
                        !.results = <<CompileResults(tasks[id].scan_type,
                                                     tasks[id].target_domain, frame[id])>>],
                    StatusEvents(<<CompletedStatus(tasks[id].scan_type, frame[id])>>)
                    \o <<Return("run")>>, id)
    /\ UNCHANGED <<scans_db, scan_counter, tasks, response, tool>>

\* Mutant: the except clause returns what the run has so far instead of
\* raising.
except_returns_partial(id) ==
    /\ loop = id
    /\ pc[id] = "except"
    /\ Step(id, "bg_store",
            [EmptyFrame EXCEPT
                !.results = <<CompileResults(tasks[id].scan_type,
                                             tasks[id].target_domain, frame[id])>>],
            StatusEvents(<<FailedStatus(tasks[id].scan_type, frame[id].exc)>>)
            \o <<Return("run")>>, id)
    /\ UNCHANGED <<scans_db, scan_counter, tasks, response, tool>>

\* The except clause of the run: the failed status, then raise.
except(id) ==
    /\ loop = id
    /\ pc[id] = "except"
    /\ Step(id, "bg_except", [EmptyFrame EXCEPT !.exc = frame[id].exc],
            StatusEvents(<<FailedStatus(tasks[id].scan_type, frame[id].exc)>>)
            \o <<Raised("run")>>, id)
    /\ UNCHANGED <<scans_db, scan_counter, tasks, response, tool>>

\* scans_db[scan_id].update({'status': 'completed', ...})
StoreCompleted(rec, results) ==
    [rec EXCEPT !.status = "completed",
                !.completed_at = "2024-01-01T00:00:00",
                !.results = results]

\* Mutant: the except clause stores the message and leaves the status.
StoreFailed_message_only(rec, e) == [rec EXCEPT !.error_message = e]

\* scans_db[scan_id].update({'status': 'failed', 'error_message': str(e)})
StoreFailed(rec, e) == [rec EXCEPT !.status = "failed", !.error_message = e]

\* run_scan_background after the run returned: the record gets the results.
\* With the record deleted the update raises KeyError into the except clause.
bg_store(id) ==
    /\ loop = id
    /\ pc[id] = "bg_store"
    /\ IF id \in DOMAIN scans_db
       THEN /\ scans_db' = [scans_db EXCEPT
                                ![id] = StoreCompleted(@, frame[id].results)]
            /\ Step(id, "done", EmptyFrame, <<>>, 0)
       ELSE /\ UNCHANGED scans_db
            /\ Step(id, "bg_except", [EmptyFrame EXCEPT !.exc = "KeyError"], <<>>, id)
    /\ UNCHANGED <<scan_counter, tasks, response, tool>>

\* The except clause of run_scan_background.  With the record deleted its
\* update raises KeyError and the task ends with the exception.
bg_except(id) ==
    /\ loop = id
    /\ pc[id] = "bg_except"
    /\ IF id \in DOMAIN scans_db
       THEN /\ scans_db' = [scans_db EXCEPT ![id] = StoreFailed(@, frame[id].exc)]
            /\ Step(id, "done", EmptyFrame, <<>>, 0)
       ELSE /\ UNCHANGED scans_db
            /\ Step(id, "crashed", EmptyFrame, <<>>, 0)
    /\ UNCHANGED <<scan_counter, tasks, response, tool>>

Next ==
    \/ \E scan_type \in RequestTypes : create_scan(scan_type)
    \/ \E id \in Ids : api_get_scan_status(id)
    \/ \E id \in Ids : bg_start(id)
    \/ \E id \in Ids : run_start(id)
    \/ \E id \in Ids : enumerate_start(id)
    \/ \E id \in Ids : crtsh_reply(id)
    \/ \E id \in Ids : enumerate_return(id)
    \/ \E id \in Ids : after_enumerate(id)
    \/ \E id \in Ids : port_scan(id)
    \/ \E id \in Ids : after_port_scan(id)
    \/ \E id \in Ids : vuln_call(id)
    \/ \E id \in Ids : vuln_next(id)
    \/ \E id \in Ids : audit_reply(id)
    \/ \E id \in Ids : after_vuln(id)
    \/ \E id \in Ids : compile(id)
    \/ \E id \in Ids : except(id)
    \/ \E id \in Ids : bg_store(id)
    \/ \E id \in Ids : bg_except(id)

\* The scans and the status requests; no scan is deleted.
Spec == Init /\ [][Next]_vars

NextApi ==
    \/ Next
    \/ \E id \in Ids : delete_scan(id)

\* The same with DELETE /scans/{scan_id}.
SpecApi == Init /\ [][NextApi]_vars

(***************************************************************************)
(* The tools called on their own, on answers drawn from larger sets: one   *)
(* call in each behaviour, recorded in tool with what it was given.        *)
(***************************************************************************)
Api == <<"api">> \o Domain

\* The certificate records an answer of crt.sh is made of.
CertPool ==
    {Cert(Www), Cert(Api), Cert(Domain), Cert(<<" ">> \o Www \o <<" ">>),
     Cert(<<>>), Cert(<<"evil", "org">>), NotAnObject}

RECURSIVE SeqsUpTo(_, _)
SeqsUpTo(S, n) ==
    IF n = 0 THEN {<<>>}
    ELSE LET shorter == SeqsUpTo(S, n - 1)
         IN  shorter \cup {Append(q, x) : q \in shorter, x \in S}

ToolCrt ==
    {CrtResp("import_error", 0, <<>>), CrtResp("error", 0, <<>>),
     CrtResp("ok", 500, <<Cert(Www)>>)}
    \cup {CrtResp("ok", 200, data) : data \in SeqsUpTo(CertPool, MaxCerts)}

ToolLabels == SeqToSet(SubSeq(common_subs, 1, MaxLabels))

ToolDns ==
    {DnsAnswer(ok, err) : ok \in SUBSET ToolLabels, err \in SUBSET ToolLabels}

ToolHosts == {Domain, Www, Api}

ToolConn ==
    {ConnProfile({}, {}), ConnProfile({80}, {}), ConnProfile({22, 443}, {80}),
     ConnProfile({22, 80, 443}, {}), ConnProfile({}, SeqToSet(common_ports)),
     ConnProfile({22, 80, 9999}, {})}

\* enumerate_subdomains(domain)
tool_enumerate_subdomains ==
    /\ tool.op = "none"
    /\ \E net \in [crt : ToolCrt, dns : ToolDns] :
          \E out \in enumerate_subdomains(Domain, net) :
             tool' = [op |-> "enumerate_subdomains", domain |-> Domain, net |-> net,
                      methods |-> MethodResults(Domain, net), out |-> out]
    /\ UNCHANGED <<scans_db, scan_counter, tasks, scan_status, pc, frame, loop,
                   log, response>>

\* scan_ports(targets)
tool_scan_ports ==
    /\ tool.op = "none"
    /\ \E targets \in SeqsUpTo(ToolHosts, 2) :
          \E conn \in [ToolHosts -> ToolConn] :
             tool' = [op |-> "scan_ports", targets |-> targets, conn |-> conn,
                      out |-> scan_ports(targets, conn)]
    /\ UNCHANGED <<scans_db, scan_counter, tasks, scan_status, pc, frame, loop,
                   log, response>>

\* The port lists _scan_target_ports is called with on its own.
ToolPorts == {common_ports, <<80, 22, 9999>>, <<9999>>}

\* _scan_target_ports(target, ports)
tool_scan_target_ports ==
    /\ tool.op = "none"
    /\ \E target \in ToolHosts, ports \in ToolPorts, profile \in ToolConn :
          tool' = [op |-> "_scan_target_ports", target |-> target, ports |-> ports,
                   conn |-> (target :> profile),
                   out |-> _scan_target_ports(target, ports, (target :> profile))]
    /\ UNCHANGED <<scans_db, scan_counter, tasks, scan_status, pc, frame, loop,
                   log, response>>

\* The outcomes of the GET of the header audit: a failure, or a response with
\* any of the checked headers and possibly another one.  response.headers
\* compares names without regard to case: a header stands for its name in
\* any case.
ToolHttp ==
    {HttpResp("error", {})}
    \cup {HttpResp("ok", headers) : headers \in SUBSET (SeqToSet(security_headers) \cup {"Server"})}

\* _scan_web_vulnerabilities(target, port)
tool_scan_web_vulnerabilities ==
    /\ tool.op = "none"
    /\ \E target \in {Domain, Www}, port \in {80, 443}, resp \in ToolHttp :
          tool' = [op |-> "_scan_web_vulnerabilities", target |-> target, port |-> port,
                   resp |-> resp,
                   out |-> _scan_web_vulnerabilities(target, port, resp)]
    /\ UNCHANGED <<scans_db, scan_counter, tasks, scan_status, pc, frame, loop,
                   log, response>>

\* The port results scan_vulnerabilities is called with: those scan_ports
\* gives for one or two hosts.
VulnHosts == {Domain, Www}

VulnConn ==
    {ConnProfile({}, {}), ConnProfile({22}, {}), ConnProfile({80}, {}),
     ConnProfile({22, 80, 443}, {})}

ToolPortResults ==
    {scan_ports(targets, conn) :
        targets \in SeqsUpTo(VulnHosts, 2) \ {<<>>}, conn \in [VulnHosts -> VulnConn]}

\* scan_vulnerabilities(targets)
tool_scan_vulnerabilities ==
    /\ tool.op = "none"
    /\ \E targets \in ToolPortResults, http \in [VulnHosts \X {22, 80, 443} -> SpecHttp] :
          tool' = [op |-> "scan_vulnerabilities", targets |-> targets, http |-> http,
                   audits |-> AuditPairs(targets, targets.keys),
                   out |-> scan_vulnerabilities(targets, http)]
    /\ UNCHANGED <<scans_db, scan_counter, tasks, scan_status, pc, frame, loop,
                   log, response>>

NextTools ==
    \/ tool_enumerate_subdomains
    \/ tool_scan_ports
    \/ tool_scan_target_ports
    \/ tool_scan_web_vulnerabilities
    \/ tool_scan_vulnerabilities

SpecTools == Init /\ [][NextTools]_vars

(***************************************************************************)
(* The runs with time: what the event loop and the time-outs guarantee.    *)
(* The GET of _crtsh_lookup has timeout=30, connect_ex has settimeout(2)   *)
(* and the GET of the header audit has timeout=10: each of them ends, and  *)
(* a run that can take a step takes it.  socket.gethostbyname has no       *)
(* time-out: a resolver that does not answer keeps the run, and the loop   *)
(* it holds, in _dns_bruteforce.                                           *)
(***************************************************************************)
\* gethostbyname does not return.
dns_blocks(id) ==
    /\ loop = id
    /\ pc[id] = "enumerate_rest"
    /\ Step(id, "dns_blocked", frame[id], <<>>, id)
    /\ UNCHANGED <<scans_db, scan_counter, tasks, response, tool>>

\* A step of the background task of scan id.
RunStep(id) ==
    \/ bg_start(id) \/ run_start(id) \/ enumerate_start(id) \/ crtsh_reply(id)
    \/ enumerate_return(id) \/ after_enumerate(id) \/ port_scan(id)
    \/ after_port_scan(id) \/ vuln_call(id) \/ vuln_next(id) \/ audit_reply(id)
    \/ after_vuln(id) \/ compile(id) \/ except(id) \/ bg_store(id) \/ bg_except(id)

NextLive ==
    \/ Next
    \/ \E id \in Ids : dns_blocks(id)

SpecLive == Init /\ [][NextLive]_vars /\ \A id \in Ids : WF_vars(RunStep(id))

(***************************************************************************)
(* The claims.                                                             *)
(***************************************************************************)
\* run id returned its results
Returned(id) == \E i \in DOMAIN log[id] : log[id][i] = Return("run")

\* run id raised to run_scan_background
RunRaised(id) == \E i \in DOMAIN log[id] : log[id][i] = Raised("run")

\* an exception left a phase of run id
PhaseRaised(id) ==
    \E i \in DOMAIN log[id] : log[id][i].ev = "raise" /\ log[id][i].name # "run"

ToolReturned(id, name) == \E i \in DOMAIN log[id] : log[id][i] = Return(name)

Progress(w) == [i \in DOMAIN w |-> w[i].progress]

NonDecreasing(q) == \A i, j \in DOMAIN q : i <= j => q[i] <= q[j]

ClaimedTypes == {"full", "subdomain", "port", "vuln"}

\* C1: in a run that succeeds, whatever the scan type, the progress values
\* written to the job's status record never decrease, and the last one is
\* 100, written with status 'completed' (and only that update writes 100).
C1_SuccessfulRunProgress ==
    \A id \in Ids :
        Returned(id) =>
            LET w == Writes(id)
            IN  /\ w # <<>>
                /\ NonDecreasing(Progress(w))
                /\ w[Len(w)].progress = 100
                /\ w[Len(w)].status = "completed"
                /\ \A i \in DOMAIN w : w[i].progress = 100 => i = Len(w)
                /\ scan_status[id].progress = 100
                /\ scan_status[id].status = "completed"

\* A full scan and a scan of another type have both succeeded.
C1_Witness ==
    \E id, other \in Ids :
        /\ Returned(id) /\ tasks[id].scan_type = "full"
        /\ Progress(Writes(id)) = <<0, 10, 30, 40, 70, 80, 95, 100>>
        /\ Returned(other) /\ tasks[other].scan_type # "full"
        /\ Progress(Writes(other)) = <<0, 100>>

\* C2: once an exception has left a phase of a run and the run's except
\* clause has run, the status record is 'failed' with a progress below 100
\* and the exception's text in its message, the exception is on its way to
\* (or has reached) the caller and no result was returned; the run has not
\* written progress 100 at any point.
C2_FailedRun ==
    \A id \in Ids :
        (PhaseRaised(id) /\ pc[id] # "except") =>
            /\ id \in DOMAIN scan_status
            /\ scan_status[id].status = "failed"
            /\ scan_status[id].progress < 100
            /\ Len(scan_status[id].message) = 2
            /\ scan_status[id].message[2] \in {"MemoryError", "DeprecationWarning"}
            /\ RunRaised(id) /\ ~Returned(id)
            /\ pc[id] \in {"bg_except", "done", "crashed"}
            /\ pc[id] = "bg_except" => frame[id].exc = scan_status[id].message[2]
            /\ (pc[id] = "done" /\ id \in DOMAIN scans_db) =>
                   scans_db[id].error_message = scan_status[id].message[2]
            /\ \A i \in DOMAIN Writes(id) : Writes(id)[i].progress < 100

\* A full scan failed after its first phase and the exception has reached
\* run_scan_background.
C2_Witness ==
    \E id \in Ids :
        /\ PhaseRaised(id) /\ pc[id] = "bg_except"
        /\ tasks[id].scan_type = "full"
        /\ ToolReturned(id, "enumerate_subdomains")
        /\ scan_status[id].status = "failed"

\* C3: of two status reads of the same job taken one after the other, the
\* later one never returns a smaller progress.
C3_ReadsNeverRegress ==
    [][(/\ response.op = "status"
        /\ response'.op = "status"
        /\ response'.scan_id = response.scan_id)
       => response'.progress >= response.progress]_vars

\* C4: a status read of a job id no run was called with answers 'unknown'
\* with progress 0, and the status table holds no record but those of the
\* ids a run was called with: a read leaves the table as it was.
C4_UnknownForNeverRun ==
    /\ [](response.op = "status" /\ ~response.ran =>
             /\ response.code = 200
             /\ response.status = "unknown"
             /\ response.progress = 0)
    /\ [](DOMAIN scan_status \subseteq Ran)
    /\ [][response' # response /\ response'.op = "status"
          => scan_status' = scan_status]_vars

\* A job that has not started was read while another job had run.
C4_Witness ==
    /\ response.op = "status" /\ ~response.ran
    /\ response.status = "unknown"
    /\ response.scan_id \notin Ran
    /\ Ran # {}
    /\ scan_status # <<>>

\* No run is under way.
Quiescent == loop = 0 /\ \A id \in Ids : pc[id] \in {"none", "done", "crashed"}

Refused == response.op = "create" /\ response.code = 422

C6_NoResultsOnFailure ==
    \A id \in Ids :
        PhaseRaised(id) =>
            /\ frame[id].results = <<>>
            /\ pc[id] # "bg_store"
            /\ RunRaised(id) => frame[id] = [EmptyFrame EXCEPT !.exc = frame[id].exc]
            /\ id \in DOMAIN scans_db =>
                   /\ scans_db[id].results = <<>>
                   /\ scans_db[id].status # "completed"

\* A full scan failed after its port phase had returned its output, and the
\* job's record is 'failed' with no results.
C6_Witness ==
    \E id \in Ids :
        /\ PhaseRaised(id) /\ pc[id] = "done"
        /\ ToolReturned(id, "scan_ports")
        /\ id \in DOMAIN scans_db
        /\ scans_db[id].status = "failed"
        /\ scans_db[id].results = <<>>
        /\ scan_status[id].status = "failed"

\* The run of id has ended: it returned or raised.
Terminated(id) == Returned(id) \/ RunRaised(id)

\* C7: the status updates of a run start with 'running'; every update but
\* the last is 'running' (nothing follows 'completed' or 'failed'); a run
\* that has ended has 'completed' as its last update if it returned and
\* 'failed' if it raised; the table holds the last update.
C7_StatusStateMachine ==
    \A id \in Ids :
        LET w == Writes(id)
        IN  /\ id \in DOMAIN scan_status <=> w # <<>>
            /\ w # <<>> =>
                   /\ w[1].status = "running"
                   /\ [scan_status[id] EXCEPT !.message = <<>>] = w[Len(w)]
                   /\ \A i \in 1..(Len(w) - 1) : w[i].status = "running"
                   /\ w[Len(w)].status \in {"running", "completed", "failed"}
                   /\ w[Len(w)].status = "completed" <=> Returned(id)
                   /\ w[Len(w)].status = "failed" <=> RunRaised(id)
            /\ Terminated(id) => w # <<>>
            /\ ~(Returned(id) /\ RunRaised(id))
            /\ pc[id] \in {"bg_store", "bg_except", "done", "crashed"} /\ id \in Ran
                   => Terminated(id)

\* One run completed and another failed, each after several updates.
C7_Witness ==
    \E id, other \in Ids :
        /\ Returned(id) /\ Len(Writes(id)) = 8 /\ pc[id] = "done"
        /\ RunRaised(other) /\ Len(Writes(other)) > 2 /\ pc[other] = "done"

\* C8, as claimed: the keys of the map scan_ports returns are exactly the
\* probed targets with at least one open port among the probed ports.
C8_OmitsTargetsWithoutOpenPorts ==
    tool.op = "scan_ports" =>
        SeqToSet(tool.out.keys) =
            {t \in SeqToSet(tool.targets) :
                tool.conn[t].open \cap SeqToSet(common_ports) # {}}

\* C9, as claimed: the summary of a completed full scan counts the
\* subdomains, the distinct targets (root and subdomains), the targets with
\* at least one open port, and the findings.
C9_FullScanSummary ==
    \A id \in DOMAIN scans_db :
        (scans_db[id].scan_type = "full" /\ scans_db[id].status = "completed") =>
            LET r == scans_db[id].results[1]
                targets == {r.target_domain} \cup SeqToSet(r.subdomains)
            IN  /\ r.summary.total_subdomains = Cardinality(SeqToSet(r.subdomains))
                /\ r.summary.total_targets = Cardinality(targets)
                /\ r.summary.targets_with_open_ports =
                       Cardinality({t \in targets :
                           /\ t \in SeqToSet(r.port_scan_results.keys)
                           /\ r.port_scan_results.val[t].open_ports # <<>>})
                /\ r.summary.total_vulnerabilities = Len(r.vulnerabilities)

\* C10: the list enumerate_subdomains returns has no element twice and its
\* elements are exactly those of the lists its methods returned (a method
\* that raised gives none).
C10_DiscoveryIsDeduplicatedUnion ==
    tool.op = "enumerate_subdomains" =>
        /\ NoDup(tool.out)
        /\ SeqToSet(tool.out) =
               UNION {SeqToSet(tool.methods[i].value) :
                         i \in {j \in DOMAIN tool.methods : tool.methods[j].exc = None}}

\* crt.sh gave www and api, the DNS method gave www: two elements.
C10_Witness ==
    /\ tool.op = "enumerate_subdomains"
    /\ tool.methods[1].exc = None /\ tool.methods[1].value = <<Www, Api>>
    /\ tool.methods[2].exc = None /\ tool.methods[2].value = <<Www>>
    /\ Len(tool.out) = 2

\* The labels of common_subs for which gethostbyname fails, in any way.
FailingLabels(resolve) == {l \in DOMAIN resolve : resolve[l] # "ok"}

\* C11, as claimed: a method that fails gives nothing and, in the DNS
\* method, a label whose resolution fails in any way is left out alone: the
\* list enumerate_subdomains returns holds what crt.sh gave and every label
\* that resolved.
C11_FailuresAreIsolated ==
    tool.op = "enumerate_subdomains" =>
        SeqToSet(tool.out) =
            (IF tool.methods[1].exc = None THEN SeqToSet(tool.methods[1].value) ELSE {})
            \cup {<<l>> \o tool.domain :
                     l \in SeqToSet(common_subs) \ FailingLabels(tool.net.dns)}

\* Run id is inside enumerate_subdomains.
InDiscovery(id) ==
    pc[id] \in {"crtsh_wait", "enumerate_rest", "dns_blocked"}

\* C12, as claimed: whatever a discovery method does, the discovery phase
\* of a run ends: a run that is inside enumerate_subdomains leaves it.
C12_DiscoveryTerminates ==
    \A id \in Ids : InDiscovery(id) ~> ~InDiscovery(id)

\* The elements of the sequence q that are in the set S, in the order of q.
RECURSIVE Filter(_, _)
Filter(q, S) ==
    IF q = <<>> THEN <<>>
    ELSE (IF Head(q) \in S THEN <<Head(q)>> ELSE <<>>) \o Filter(Tail(q), S)

\* The ports scan_ports reports open for target t (none when t is left out).
ReportedPorts(t) ==
    IF t \in SeqToSet(tool.out.keys)
    THEN [i \in DOMAIN tool.out.val[t].open_ports |-> tool.out.val[t].open_ports[i].port]
    ELSE <<>>

\* C13: a connection that is refused, times out (an errno) or raises gives
\* no finding and stops nothing: for every target handed to scan_ports the
\* ports reported are exactly the probed ports that answered, in the order
\* probed, whatever the connections to other ports and targets did.
C13_ErrorsAreClosedPorts ==
    tool.op = "scan_ports" =>
        \A i \in DOMAIN tool.targets :
            LET t == tool.targets[i]
            IN  /\ ReportedPorts(t) = Filter(common_ports, tool.conn[t].open)
                /\ \A p \in SeqToSet(ReportedPorts(t)) : p \notin tool.conn[t].err

\* Every connection to the first target raised and port 80 of the second
\* raised: ports 22 and 443 of the second target are reported.
C13_Witness ==
    /\ tool.op = "scan_ports"
    /\ tool.targets = <<Domain, Www>>
    /\ tool.conn[Domain] = ConnProfile({}, SeqToSet(common_ports))
    /\ tool.conn[Www] = ConnProfile({22, 443}, {80})
    /\ ReportedPorts(Www) = <<22, 443>>
    /\ ReportedPorts(Domain) = <<>>

\* The findings f agree with the service table where the claim names it.
Classified(f) ==
    /\ f.state = "open"
    /\ f.port = 22 => f.service = "ssh"
    /\ f.port = 80 => f.service = "http"
    /\ f.port = 443 => f.service = "https"
    /\ f.port = 9999 => f.service = "unknown"

\* C14, as claimed: scan_ports reports every open port of a target, with
\* the service of the table or 'unknown': open ports {80, 22, 9999} give
\* three findings.
C14_EveryOpenPortReported ==
    tool.op = "scan_ports" =>
        \A i \in DOMAIN tool.targets :
            LET t == tool.targets[i]
            IN  /\ SeqToSet(ReportedPorts(t)) = tool.conn[t].open
                /\ t \in SeqToSet(tool.out.keys) =>
                       \A k \in DOMAIN tool.out.val[t].open_ports :
                           Classified(tool.out.val[t].open_ports[k])

\* C14, amended: every port reported open has state 'open' and the service
\* of the table.  scan_ports probes the fifteen ports of common_ports only,
\* all of them in the table: an open port outside them (9999) is not
\* reported and no finding of scan_ports has service 'unknown'.  Only
\* _scan_target_ports called with a port outside the table reports it, as
\* 'unknown'.
C14_ReportedPortsClassified ==
    /\ tool.op = "scan_ports" =>
           \A i \in DOMAIN tool.targets :
               LET t == tool.targets[i]
               IN  /\ SeqToSet(ReportedPorts(t)) =
                          tool.conn[t].open \cap SeqToSet(common_ports)
                   /\ t \in SeqToSet(tool.out.keys) =>
                          \A k \in DOMAIN tool.out.val[t].open_ports :
                              /\ Classified(tool.out.val[t].open_ports[k])
                              /\ tool.out.val[t].open_ports[k].service # "unknown"
    /\ tool.op = "_scan_target_ports" =>
           /\ [k \in DOMAIN tool.out.open_ports |-> tool.out.open_ports[k].port]
                  = Filter(tool.ports, tool.conn[tool.target].open)
           /\ \A k \in DOMAIN tool.out.open_ports :
                  /\ Classified(tool.out.open_ports[k])
                  /\ tool.out.open_ports[k].service = "unknown"
                         <=> tool.out.open_ports[k].port \notin SeqToSet(common_ports)

\* Ports 22, 80 and 9999 of a target are open: scan_ports reports 22 as ssh
\* and 80 as http, and nothing for 9999.
C14_Witness ==
    /\ tool.op = "scan_ports"
    /\ tool.targets = <<Www>>
    /\ tool.conn[Www].open = {22, 80, 9999}
    /\ tool.out.val[Www].open_ports =
           << [port |-> 22, service |-> "ssh", state |-> "open"],
              [port |-> 80, service |-> "http", state |-> "open"] >>

\* The five headers the claim says are checked.
CheckedHeaders ==
    {"X-Frame-Options", "X-Content-Type-Options", "X-XSS-Protection",
     "Strict-Transport-Security", "Content-Security-Policy"}

\* C15: for a response, the header audit returns one finding for each of
\* the five checked headers that the response lacks and none for one it
\* has, each with severity 'Medium' and the target and port audited: 5 - k
\* findings when k of the five are present.
C15_OneFindingPerMissingHeader ==
    (tool.op = "_scan_web_vulnerabilities" /\ tool.resp.kind = "ok") =>
        LET missing == CheckedHeaders \ tool.resp.headers
            present == CheckedHeaders \cap tool.resp.headers
        IN  /\ Len(tool.out) = 5 - Cardinality(present)
            /\ {tool.out[i].description : i \in DOMAIN tool.out}
                   = {HeaderDescription(h) : h \in missing}
            /\ \A i \in DOMAIN tool.out :
                   /\ tool.out[i].severity = "Medium"
                   /\ tool.out[i].vulnerability_type = "Missing Security Header"
                   /\ tool.out[i].target = tool.target
                   /\ tool.out[i].port = tool.port

\* Only Content-Security-Policy is present: four findings.
C15_Witness ==
    /\ tool.op = "_scan_web_vulnerabilities"
    /\ tool.resp = HttpResp("ok", {"Content-Security-Policy"})
    /\ Len(tool.out) = 4
    /\ \A i \in DOMAIN tool.out : tool.out[i].severity = "Medium"

\* The findings of the list out for target and port a.
FindingsFor(out, a) == SelectSeq(out, LAMBDA f : f.target = a[1] /\ f.port = a[2])

\* C16: a header audit whose request fails returns no finding, and in
\* scan_vulnerabilities it leaves the other audits alone: the list returned
\* holds no finding for a target and port whose request failed and, for
\* every other audited target and port, one finding for each checked header
\* its response lacks.
C16_FailedAuditIsEmpty ==
    /\ (tool.op = "_scan_web_vulnerabilities" /\ tool.resp.kind = "error") => tool.out = <<>>
    /\ tool.op = "scan_vulnerabilities" =>
           \A i \in DOMAIN tool.audits :
               LET a == tool.audits[i]
                   found == FindingsFor(tool.out, a)
               IN  IF tool.http[a].kind = "error"
                   THEN found = <<>>
                   ELSE /\ Len(found) = Cardinality(CheckedHeaders \ tool.http[a].headers)
                        /\ {found[k].description : k \in DOMAIN found}
                               = {HeaderDescription(h) :
                                     h \in CheckedHeaders \ tool.http[a].headers}

\* Three audits: the first answered, the second failed, the third answered;
\* the findings of the first and of the third are returned.
C16_Witness ==
    /\ tool.op = "scan_vulnerabilities"
    /\ Len(tool.audits) = 3
    /\ tool.http[tool.audits[1]].kind = "ok"
    /\ tool.http[tool.audits[2]].kind = "error"
    /\ tool.http[tool.audits[3]].kind = "ok"
    /\ Len(tool.out) = 4
    /\ FindingsFor(tool.out, tool.audits[1]) # <<>>
    /\ FindingsFor(tool.out, tool.audits[3]) # <<>>

\* The targets and open ports of the port results whose service is http or
\* https.
WebPairs(targets) ==
    UNION {{<<t, targets.val[t].open_ports[k].port>> :
               k \in {j \in DOMAIN targets.val[t].open_ports :
                         targets.val[t].open_ports[j].service \in {"http", "https"}}} :
           t \in SeqToSet(targets.keys)}

\* The findings of the audits of the pairs of q, one audit after the other.
RECURSIVE AuditsOf(_, _)
AuditsOf(q, http) ==
    IF q = <<>> THEN <<>>
    ELSE _scan_web_vulnerabilities(Head(q)[1], Head(q)[2], http[Head(q)])
         \o AuditsOf(Tail(q), http)

\* C19: scan_vulnerabilities audits each target and open port whose service
\* is http or https once and no other; the list it returns is the findings
\* of these audits one after the other, none removed, and has no finding
\* for a target and port that was not audited.
C19_AuditsExactlyWebPorts ==
    tool.op = "scan_vulnerabilities" =>
        /\ NoDup(tool.audits)
        /\ SeqToSet(tool.audits) = WebPairs(tool.targets)
        /\ tool.out = AuditsOf(tool.audits, tool.http)
        /\ \A i \in DOMAIN tool.out :
               <<tool.out[i].target, tool.out[i].port>> \in WebPairs(tool.targets)

\* Two hosts, each with ssh, http and https open and every request answered:
\* four audits, none for port 22, and the findings of the two hosts for the
\* same missing headers are all returned.
C19_Witness ==
    /\ tool.op = "scan_vulnerabilities"
    /\ tool.targets.keys = <<Domain, Www>>
    /\ tool.audits = << <<Domain, 80>>, <<Domain, 443>>, <<Www, 80>>, <<Www, 443>> >>
    /\ \A i \in 1..4 : tool.http[tool.audits[i]].kind = "ok"
    /\ Len(tool.out) = 8

PhaseTools == {"enumerate_subdomains", "scan_ports", "scan_vulnerabilities"}

\* The calls of the three tools by run id and how each ended, in order.
PhaseEvents(id) ==
    SelectSeq(log[id], LAMBDA e : e.ev \in {"call", "return", "raise"} /\ e.name \in PhaseTools)

\* The tools each scan type is said to call, in order.
PhaseSequence(scan_type) ==
    CASE scan_type = "full" -> <<"enumerate_subdomains", "scan_ports", "scan_vulnerabilities">>
      [] scan_type = "subdomain" -> <<"enumerate_subdomains">>
      [] scan_type = "port" -> <<"scan_ports">>
      [] scan_type = "vuln" -> <<"scan_ports", "scan_vulnerabilities">>

\* The tools of run id are called one after the other, in the order of its
\* scan type, each after the one before it has returned, and none after one
\* that raised.
InSequence(id) ==
    LET ph == PhaseEvents(id)
        expected == PhaseSequence(tasks[id].scan_type)
    IN  /\ Len(ph) <= 2 * Len(expected)
        /\ \A k \in DOMAIN ph :
               /\ ph[k].name = expected[(k + 1) \div 2]
               /\ k % 2 = 1 => ph[k].ev = "call"
               /\ k % 2 = 0 => ph[k].ev \in {"return", "raise"}
               /\ ph[k].ev = "raise" => k = Len(ph)

\* What the vulnerability phase of run id works on is the output of its
\* port phase: the audits still to make are those of the port results, and
\* every finding is for a target and port of the port results.
VulnInputIsPortOutput(id) ==
    pc[id] \in {"vuln_loop", "audit_wait", "after_vuln"} =>
        /\ \E n \in 0..Len(AuditPairs(frame[id].port_results, frame[id].port_results.keys)) :
              frame[id].audits =
                  SubSeq(AuditPairs(frame[id].port_results, frame[id].port_results.keys),
                         n + 1,
                         Len(AuditPairs(frame[id].port_results, frame[id].port_results.keys)))
        /\ \A k \in DOMAIN frame[id].vulnerabilities :
              <<frame[id].vulnerabilities[k].target, frame[id].vulnerabilities[k].port>>
                  \in WebPairs(frame[id].port_results)

\* C17, as claimed: the phases of a job run one after the other and each
\* receives exactly the output of the one before: in a full scan the port
\* phase is called with the subdomains discovery returned.
C17_PhasesReceiveEarlierOutput ==
    \A id \in DOMAIN tasks :
        /\ InSequence(id)
        /\ VulnInputIsPortOutput(id)
        /\ (tasks[id].scan_type = "full" /\ pc[id] = "port_scan") =>
               SeqToSet(PortTargets("full", tasks[id].target_domain, frame[id]))
                   = SeqToSet(frame[id].subdomains)

\* C17, amended: the phases of a job run one after the other.  In a full
\* scan the port phase is called, after discovery has returned, with the
\* root domain and the subdomains discovery returned, each once; in a port
\* or vuln scan it is called with the root domain alone.  The
\* vulnerability phase is called, after the port phase has returned, with
\* the port results.
C17_PhasesInSequence ==
    \A id \in DOMAIN tasks :
        /\ InSequence(id)
        /\ VulnInputIsPortOutput(id)
        /\ pc[id] = "port_scan" =>
               LET targets == PortTargets(tasks[id].scan_type, tasks[id].target_domain,
                                          frame[id])
               IN  /\ NoDup(targets)
                   /\ SeqToSet(targets) =
                          IF tasks[id].scan_type = "full"
                          THEN {tasks[id].target_domain} \cup SeqToSet(frame[id].subdomains)
                          ELSE {tasks[id].target_domain}
        /\ pc[id] \in {"after_port_scan", "vuln_scan"} =>
               /\ PhaseEvents(id)[Len(PhaseEvents(id))] = Return("scan_ports")
               /\ tasks[id].scan_type = "full" =>
                      SeqToSet(frame[id].port_results.keys)
                          \subseteq {tasks[id].target_domain} \cup SeqToSet(frame[id].subdomains)

\* A full scan whose three phases have returned: discovery found www.x.com,
\* the port phase probed x.com and www.x.com, the vulnerability phase
\* reported on www.x.com.
C17_Witness ==
    \E id \in DOMAIN tasks :
        /\ tasks[id].scan_type = "full"
        /\ pc[id] = "after_vuln"
        /\ Len(PhaseEvents(id)) = 6
        /\ frame[id].subdomains = <<Www>>
        /\ SeqToSet(frame[id].port_results.keys) = {Domain, Www}
        /\ frame[id].vulnerabilities # <<>>

\* The name under which the status record reports each tool's phase.
PhaseName(name) ==
    CASE name = "enumerate_subdomains" -> "subdomain_enum"
      [] name = "scan_ports" -> "port_scan"
      [] name = "scan_vulnerabilities" -> "vuln_scan"

\* The status updates of run id and the calls of its three tools, in order.
BoundaryEvents(id) ==
    SelectSeq(log[id], LAMBDA e : e.ev = "status" \/ e.name \in PhaseTools)

\* Every phase of run id is reported at its boundaries: the event before a
\* tool's call is a 'running' update with the phase's name, the event after
\* the call is the tool's return (no update in the middle), and the event
\* after the return is an update.
ReportedAtBoundaries(id) ==
    LET ev == BoundaryEvents(id)
    IN  \A k \in DOMAIN ev :
            /\ ev[k].ev = "call" =>
                   /\ k > 1
                   /\ ev[k - 1].ev = "status"
                   /\ ev[k - 1].rec.status = "running"
                   /\ ev[k - 1].rec.current_phase = PhaseName(ev[k].name)
                   /\ k < Len(ev) =>
                          /\ ev[k + 1].ev \in {"return", "raise"}
                          /\ ev[k + 1].name = ev[k].name
            /\ (ev[k].ev = "return" /\ k < Len(ev)) => ev[k + 1].ev = "status"

\* C18, as claimed: for every scan type, every phase is reported as
\* 'running' under its name before it starts and the status is updated
\* again after it finishes, and never in between.
C18_PhasesReportedAtBoundaries ==
    \A id \in DOMAIN tasks : ReportedAtBoundaries(id)

\* The record of job id is the same before and after the step.
SameRecord(id) ==
    /\ id \in DOMAIN scan_status' <=> id \in DOMAIN scan_status
    /\ id \in DOMAIN scan_status => scan_status'[id] = scan_status[id]

\* C20: with several jobs interleaved, a step in which a job makes no status
\* update leaves that job's record as it is (an update changes the record
\* of its own job only); the table holds for every job the last update the
\* job's run has made, and a status read returns it.
C20_UpdatesKeyedByJob ==
    /\ [][\A id \in Ids : Writes(id)' = Writes(id) => SameRecord(id)]_vars
    /\ [](\A id \in Ids :
             /\ id \in DOMAIN scan_status <=> Writes(id) # <<>>
             /\ Writes(id) # <<>> =>
                    [get_scan_status(scan_status, id) EXCEPT !.message = <<>>]
                        = Writes(id)[Len(Writes(id))])
    /\ [][(response' # response /\ response'.op = "status" /\ Writes(response'.scan_id) # <<>>)
          => LET w == Writes(response'.scan_id)
             IN  /\ response'.status = w[Len(w)].status
                 /\ response'.progress = w[Len(w)].progress]_vars

\* Two runs are suspended in the middle of their phases, each with its own
\* record, and a status read has just returned the last update of one.
C20_Witness ==
    \E id, other \in Ids :
        /\ id # other
        /\ pc[id] = "audit_wait" /\ pc[other] = "crtsh_wait"
        /\ Len(Writes(id)) > 2 /\ Len(Writes(other)) > 1
        /\ scan_status[id].progress # scan_status[other].progress
        /\ response.op = "status" /\ response.scan_id = id
        /\ response.progress = scan_status[id].progress
        /\ response.progress > 0

\* Run id is at a network operation: the exchange with crt.sh, the DNS
\* resolutions of _dns_bruteforce, the connections of scan_ports, the GET of
\* a header audit.
AtNetworkOperation(id) ==
    pc[id] \in {"crtsh_wait", "enumerate_rest", "port_scan", "audit_wait"}

\* C21, as claimed: every network operation of a run is a suspension point:
\* the run does not hold the event loop while the operation is under way,
\* so the step that ends the operation starts with the loop free (other
\* runs and status reads could be served in between).
C21_NetworkOperationsSuspend ==
    [][\A id \in Ids :
          (AtNetworkOperation(id) /\ pc'[id] # pc[id]) => loop = 0]_vars

\* The background task of scan id has ended.
RunOver(id) == pc[id] \in {"done", "crashed"}

\* C22: for a scan that was created (its type is one of the four) and not
\* deleted, the record of the job store is 'completed' only with the
\* orchestrator's record 'completed' at progress 100 and with results, and
\* 'failed' only with the orchestrator's record 'failed', an error message
\* and no results; when the background task has ended the two records
\* agree; and a record that is 'completed' or 'failed' keeps its status.
C22_JobStoreAgreesWithStatus ==
    /\ [](\A id \in DOMAIN scans_db :
             /\ scans_db[id].status = "completed" =>
                    /\ id \in DOMAIN scan_status
                    /\ scan_status[id].status = "completed"
                    /\ scan_status[id].progress = 100
                    /\ scans_db[id].results # <<>>
                    /\ scans_db[id].error_message = None
             /\ scans_db[id].status = "failed" =>
                    /\ id \in DOMAIN scan_status
                    /\ scan_status[id].status = "failed"
                    /\ scans_db[id].error_message # None
                    /\ scans_db[id].results = <<>>
             /\ RunOver(id) =>
                    /\ scans_db[id].status \in {"completed", "failed"}
                    /\ scans_db[id].status = scan_status[id].status)
    /\ [][\A id \in DOMAIN scans_db \cap DOMAIN scans_db' :
             scans_db[id].status \in {"completed", "failed"}
                 => scans_db'[id].status = scans_db[id].status]_vars

\* Two scans have ended and neither was deleted: one is 'completed' with
\* its results, the other 'failed' with its error message.
C22_Witness ==
    \E id, other \in DOMAIN scans_db :
        /\ RunOver(id) /\ RunOver(other)
        /\ scans_db[id].status = "completed" /\ scans_db[id].results # <<>>
        /\ scan_status[id].progress = 100
        /\ scans_db[other].status = "failed" /\ scans_db[other].error_message # None
        /\ scan_status[other].status = "failed"

====
